---- MODULE Spec2Model ----
(***************************************************************************)
(* Model of the outreach backend's mailbox synchronisation: the push       *)
(* webhook (src/unnamed/part_000, app.post('/google/webhook')), the        *)
(* periodic poller (src/index.js, startGmailListener and                   *)
(* processGmailHistory), the draft dispatcher and the authorisation        *)
(* endpoints, all working on the same Supabase store and the same Gmail    *)
(* mailbox.                                                                *)
(*                                                                         *)
(* Every await of a handler is a suspension point.  A handler's step is    *)
(* one action; the awaits merged into one step are those whose only        *)
(* shared reads are of tables no concurrent operation of the model writes  *)
(* between them in a way that the merged step cannot reproduce.            *)
(*                                                                         *)
(* Store calls (supabase-js) report a failure in the returned object and   *)
(* do not throw: the code relies on it (part_000:223-224 tests the         *)
(* returned row of an upsert, part_000:325-331 reads a missing row as      *)
(* null).  The result of replies.insert is never inspected, so a rejected  *)
(* insert is a step that stores nothing and continues.                     *)
(***************************************************************************)
EXTENDS Integers, Sequences, FiniteSets, Bags, TLC

\* ------------------------------------------------------------- bounds
MaxFeed == 2
MaxHooks == 2
MaxPolls == 1
MaxSends == 2
MaxParts == 2

\* ------------------------------------------------------------- values
NULL == "null"

ENCRYPTION_KEY == "k1"

\* The value process.env.ENCRYPTION_KEY had in an earlier deployment.
PREVIOUS_KEY == "k0"

TOKEN_KEY == "google_refresh_token_team"
EMAIL_KEY == "google_user_email_team"
HISTORY_KEY == "google_history_id_team"

TeamKeys == {TOKEN_KEY, EMAIL_KEY, HISTORY_KEY}

\* CryptoJS.AES.encrypt(text, ENCRYPTION_KEY): the ciphertext carries the key
\* it was made with and the text.
encrypt(text) == [key |-> ENCRYPTION_KEY, text |-> text]

\* CryptoJS.AES.decrypt(...).toString(Utf8): the text under the same key, the
\* empty string (here the empty tuple) under another one.
decrypt(ciphertext) ==
    IF ciphertext.key = ENCRYPTION_KEY THEN ciphertext.text ELSE <<>>

\* ------------------------------------------------------------- contacts
\* The pages table: two contacts with distinct stored addresses.
Pages == {"p1", "p2"}

contact_email(p) == IF p = "p1" THEN "a@x" ELSE "b@x"

\* The drafts table: one draft per contact, both to be sent by email.
Drafts == {"d1", "d2"}

draft_page(d) == IF d = "d1" THEN "p1" ELSE "p2"

\* draft.send_to_email: d1 goes out by email, d2 by the other channel only.
send_to_email(d) == d = "d1"

\* The id Gmail returns for the n-th message sent through it.
ProviderId(n) ==
    CASE n = 1 -> "M1" [] n = 2 -> "M2" [] n = 3 -> "M3" [] OTHER -> "M4"

\* ------------------------------------------------------------- mailbox
\* Messages that can show up in the mailbox's change feed.
\*   r1 answers the first message sent (In-Reply-To: <M1>), from b@x
\*   r2 has no In-Reply-To, from a@x
\*   r3 answers a message this system never sent (In-Reply-To: <X9>), from
\*      A@x (no contact has this address; a@x differs from it by case); its
\*      From header is the bare address, without display name and brackets
\*   r4 is an unread message from a@x that is not in the inbox (the mailbox
\*      filed it as spam); it has no In-Reply-To
MsgIds == {"r1", "r2", "r3", "r4"}

labelIds(m) == IF m = "r4" THEN {"SPAM", "UNREAD"} ELSE {"INBOX", "UNREAD"}

\* The messages that are delivered to the inbox.
InboxMsgIds == {m \in MsgIds : "INBOX" \in labelIds(m)}

InReplyTo(m) ==
    CASE m = "r1" -> <<"<", "M1", ">">>
      [] m = "r3" -> <<"<", "X9", ">">>
      [] OTHER -> <<>>

FromAddress(m) ==
    CASE m = "r1" -> "b@x" [] m \in {"r2", "r4"} -> "a@x" [] OTHER -> "A@x"

\* The From header as the poller reads it: display name, then the address in
\* angle brackets; or the address alone.
FromHeader(m) ==
    IF m = "r3" THEN <<FromAddress(m)>>
    ELSE <<"name", "<", FromAddress(m), ">">>

\* The text of the message's text/plain part.
BodyText(m) == <<"text", m>>

\* ------------------------------------------------------------- state
VARIABLES
    env,            \* process.env.ENCRYPTION_KEY, NULL when it is not set
    server,         \* the process: "loading", "listening" or "failed"
    drafts,         \* drafts table: the status of each draft
    dispatch,       \* the last response of /drafts/:id/send
    decoder,        \* a payload handed to the decoder, and what came of it
    settings,       \* secure_settings table, a bag of rows [key, value]
    messages,       \* messages table (OutboundMessage rows), in sent_at order
    replies,        \* replies table, a bag of rows
    feed,           \* the mailbox's history records; record k has historyId k
    unreadRemoved,  \* messages whose UNREAD label the poller removed
    sendCount,      \* messages sent through Gmail so far
    hook,           \* the webhook handler invocations
    poll,           \* the poller's interval callbacks
    listener,       \* startGmailListener: "off", "on" or "failed"
    startHistoryId  \* the poller's closure variable startHistoryId

vars == <<env, server, drafts, dispatch, decoder, settings, messages,
          replies, feed, unreadRemoved, sendCount, hook, poll, listener,
          startHistoryId>>

Hooks == 1..MaxHooks
Polls == 1..MaxPolls

\* A webhook invocation: its position, the envelope's historyId, the cursor it
\* read, the history it fetched, the index of the next record, the response
\* status (0: none yet), response.data.historyId of its history.list (which
\* the handler does not read), the error its catch received ("": none).
\* Bookkeeping for the properties: calls counts the provider calls it made, log has one entry per record it handled, prior
\* tells that every earlier invocation had finished when it arrived.
IdleHook == [pc |-> "idle", hid |-> 0, start |-> <<>>, batch |-> <<>>,
             i |-> 1, status |-> 0, calls |-> 0, log |-> <<>>,
             prior |-> FALSE, err |-> "", newHid |-> 0]

\* An interval callback of the poller: the history it fetched, the index of
\* the next record, response.data.historyId, and whether it wrote the cursor.
IdlePoll == [pc |-> "idle", batch |-> <<>>, i |-> 1, newHid |-> 0,
             calls |-> 0, log |-> <<>>, wrote |-> FALSE, err |-> ""]

\* No request to /drafts/:id/send has been answered yet.
NoResponse == [draft |-> NULL, status |-> 0, error |-> ""]

\* No payload is with the decoder.
NoPayload == [payload |-> NULL, state |-> "none", body |-> <<>>]

\* The process before its module body has run, on an empty store.
InitServer ==
    /\ env \in {ENCRYPTION_KEY, NULL}
    /\ server = "loading"
    /\ drafts = [d \in Drafts |-> "pending"]
    /\ dispatch = NoResponse
    /\ settings = EmptyBag
    /\ messages = <<>>
    /\ replies = EmptyBag
    /\ feed = <<>>
    /\ unreadRemoved = {}
    /\ sendCount = 0
    /\ hook = [h \in Hooks |-> IdleHook]
    /\ poll = [t \in Polls |-> IdlePoll]
    /\ listener = "off"
    /\ startHistoryId = <<>>

Init == InitServer /\ decoder = NoPayload


\* ------------------------------------------------------------- store
\* Upsert as a plain insert: the row is added whatever the table holds.
Upsert_insert(s, k, v) == s (+) SetToBag({[key |-> k, value |-> v]})

\* supabase.from('secure_settings').upsert({key, value}, {onConflict: 'key'}):
\* the row replaces the rows that have its key.
Upsert(s, k, v) ==
    LET kept == {r \in DOMAIN s : r.key # k} IN
    [r \in kept |-> s[r]] (+) SetToBag({[key |-> k, value |-> v]})

\* supabase.from('secure_settings').delete().like('key', '%_team')
DeleteTeamKeys(s) ==
    LET kept == {r \in DOMAIN s : r.key \notin TeamKeys} IN
    [r \in kept |-> s[r]]

\* Number of secure_settings rows with key k.
SettingCount(k) ==
    LET S == {r \in DOMAIN settings : r.key = k} IN
    BagCardinality([r \in S |-> settings[r]])

\* secure_settings.select('value').eq('key', k).single(): the row when there
\* is exactly one, no data otherwise.
SettingRow(k) ==
    IF SettingCount(k) = 1 THEN {r \in DOMAIN settings : r.key = k} ELSE {}

\* getGmailClient succeeds only when the refresh token row is found.
Connected == SettingRow(TOKEN_KEY) # {}

\* refreshToken = decrypt(data.value) is the token that was stored: Google
\* rejects every call made with another refresh_token, the empty one included.
TokenUsable ==
    \A r \in SettingRow(TOKEN_KEY) : r.value.key = ENCRYPTION_KEY

\* String(historyId): a non-empty string, so never falsy.
HistoryString(n) == <<n>>

\* historySetting ? decrypt(historySetting.value) : null; the empty tuple is
\* the falsy outcome (no row, or a text that decrypts to the empty string).
StoredCursor ==
    IF SettingRow(HISTORY_KEY) # {}
    THEN decrypt((CHOOSE r \in SettingRow(HISTORY_KEY) : TRUE).value)
    ELSE <<>>

\* .single(): the selection when it has exactly one row, no data (the empty
\* set) when it has zero or several.
Single(S) == IF Cardinality(S) = 1 THEN S ELSE {}

\* The row of a selection that has one.
TheRow(S) == CHOOSE x \in S : TRUE

\* replies.insert(row)
InsertReply(row) == replies (+) SetToBag({row})

\* Number of replies rows built from provider message m.
RowsFor(m) ==
    LET S == {r \in DOMAIN replies : r.src = m} IN
    BagCardinality([r \in S |-> replies[r]])

\* ------------------------------------------------------------- provider
\* The ways gmail.users.history.list rejects: the network or a rate limit,
\* a startHistoryId older than the history the mailbox keeps (404), a refresh
\* token the provider no longer accepts (invalid_grant).
HistoryErrors == {"Transient", "CursorInvalid", "AuthExpired"}

\* gmail.users.history.list({startHistoryId}): the records after the start.
HistoryAfter(start) ==
    IF start[1] >= Len(feed) THEN <<>> ELSE SubSeq(feed, start[1] + 1, Len(feed))

\* profile.data.historyId / response.data.historyId: the mailbox's head.
CurrentHistoryId == Len(feed)

\* ------------------------------------------------------------- resolver
\* inReplyTo.replace(/[<>]/g, '')
StripBrackets(h) == SelectSeq(h, LAMBDA c : c \notin {"<", ">"})

\* messages.select('page_id').eq('provider_message_id', id).single()
MessageByProviderId(id) ==
    Single({k \in DOMAIN messages : <<messages[k].provider_message_id>> = id})

\* PageByEmail with the comparison negated (.neq for .eq).
PageByEmail_neq(addr) == Single({p \in Pages : contact_email(p) # addr})

\* pages.select('id').eq('contact_email', addr).single()
PageByEmail(addr) == Single({p \in Pages : contact_email(p) = addr})

\* The webhook's resolution: In-Reply-To first, the sender's address second;
\* NULL when neither finds a page.
HookPageId(m) ==
    LET orig == IF InReplyTo(m) # <<>>
                THEN MessageByProviderId(StripBrackets(InReplyTo(m)))
                ELSE {}
        page == PageByEmail(FromAddress(m))
    IN  IF orig # {} THEN messages[TheRow(orig)].page_id
        ELSE IF page # {} THEN TheRow(page)
        ELSE NULL

\* fromHeader.match(/<(.+)>/)[1]: what stands between the first "<" and the
\* last ">"; no match makes the poller throw.
AngleMatch(h) ==
    LET lt == {i \in DOMAIN h : h[i] = "<"}
        gt == {j \in DOMAIN h : h[j] = ">"}
    IN  IF \E i \in lt, j \in gt : j > i + 1
        THEN LET i == CHOOSE x \in lt : \A y \in lt : x <= y
                 j == CHOOSE x \in gt : \A y \in gt : x >= y
             IN  SubSeq(h, i + 1, j - 1)
        ELSE <<>>

\* messages.select('id').eq('page_id', p).order('sent_at', desc).limit(1)
\* .single(): the page's latest row, or none.
LatestMessageOf(p) ==
    LET S == {k \in DOMAIN messages : messages[k].page_id = p} IN
    IF S = {} THEN {} ELSE {CHOOSE k \in S : \A j \in S : j <= k}

\* The poller's resolution: the address in the From header's angle brackets.
PollPage(m) ==
    LET a == AngleMatch(FromHeader(m)) IN
    IF Len(a) = 1 THEN PageByEmail(a[1]) ELSE {}

\* body.split(/\r?\nOn.*wrote:/)[0].trim() of the text/plain part
ReplyContent(m) == BodyText(m)


\* ------------------------------------------------------------- mailbox events
\* A message is added to the mailbox: one more history record.  The same
\* message can be reported by more than one record.  An answer to M1 exists
\* only once M1 was sent.
Arrive(m) ==
    /\ Len(feed) < MaxFeed
    /\ m = "r1" => sendCount >= 1
    /\ feed' = Append(feed, m)
    /\ UNCHANGED <<env, server, drafts, dispatch, decoder, settings, messages,
                   replies, unreadRemoved, sendCount, hook, poll, listener,
                   startHistoryId>>

\* ------------------------------------------------------------- startup
\* Startup without the check of the key: the module body runs to app.listen
\* whatever the environment holds.
Startup_noCheck ==
    /\ server = "loading"
    /\ server' = "listening"
    /\ UNCHANGED <<env, drafts, dispatch, decoder, settings, messages,
                   replies, feed, unreadRemoved, sendCount, hook, poll,
                   listener, startHistoryId>>

\* The module body: without ENCRYPTION_KEY it throws before any route is
\* registered; the uncaughtException handler logs the error, but the body
\* is not resumed and app.listen is never reached.
Startup ==
    /\ server = "loading"
    /\ server' = IF env = NULL THEN "failed" ELSE "listening"
    /\ UNCHANGED <<env, drafts, dispatch, decoder, settings, messages,
                   replies, feed, unreadRemoved, sendCount, hook, poll,
                   listener, startHistoryId>>

\* ------------------------------------------------------------- authorisation
\* GET /auth/google/callback, the successful path.
Authorize ==
    /\ server = "listening"
    /\ settings' = Upsert(Upsert(settings, TOKEN_KEY, encrypt("refresh")),
                          EMAIL_KEY, "team@x")
    /\ UNCHANGED <<env, server, drafts, dispatch, decoder, messages, replies,
                   feed, unreadRemoved, sendCount, hook, poll, listener,
                   startHistoryId>>

\* POST /auth/google/disconnect
Disconnect ==
    /\ server = "listening"
    /\ settings' = DeleteTeamKeys(settings)
    /\ UNCHANGED <<env, server, drafts, dispatch, decoder, messages, replies,
                   feed, unreadRemoved, sendCount, hook, poll, listener,
                   startHistoryId>>

\* ------------------------------------------------------------- dispatcher
\* POST /drafts/:id/send, the path on which no call throws: the email is
\* sent when the draft says so, and the messages row is inserted with
\* messageId, which is null when nothing was sent.
DraftSend(d) ==
    /\ server = "listening"
    /\ Connected
    /\ Len(messages) < MaxSends
    /\ sendCount' = IF send_to_email(d) THEN sendCount + 1 ELSE sendCount
    /\ messages' = Append(messages,
           [draft_id |-> d, page_id |-> draft_page(d),
            provider_message_id |-> IF send_to_email(d)
                                    THEN ProviderId(sendCount + 1)
                                    ELSE NULL])
    /\ drafts' = [drafts EXCEPT ![d] = "sent"]
    /\ dispatch' = [draft |-> d, status |-> 200, error |-> ""]
    /\ UNCHANGED <<env, server, decoder, settings, replies, feed,
                   unreadRemoved, hook, poll, listener, startHistoryId>>

\* DraftSendFails with the insert ahead of the send: the row is written,
\* then the provider rejects the message.
DraftSendFails_inserted(d) ==
    /\ server = "listening"
    /\ Connected /\ send_to_email(d)
    /\ Len(messages) < MaxSends
    /\ messages' = Append(messages,
           [draft_id |-> d, page_id |-> draft_page(d),
            provider_message_id |-> NULL])
    /\ dispatch' = [draft |-> d, status |-> 500, error |-> "SendFailed"]
    /\ UNCHANGED <<env, server, drafts, decoder, settings, replies, feed,
                   unreadRemoved, sendCount, hook, poll, listener,
                   startHistoryId>>

\* POST /drafts/:id/send, the paths into the catch: getGmailClient throws
\* for lack of a credential, or gmail.users.messages.send rejects.  The
\* handler answers 500; the insert and the status update are not reached.
DraftSendFails(d) ==
    /\ server = "listening"
    /\ \/ /\ ~Connected
          /\ dispatch' = [draft |-> d, status |-> 500,
                          error |-> "NotConnected"]
       \/ /\ Connected /\ send_to_email(d)
          /\ dispatch' = [draft |-> d, status |-> 500,
                          error |-> "SendFailed"]
    /\ UNCHANGED <<env, server, drafts, decoder, settings, messages, replies,
                   feed, unreadRemoved, sendCount, hook, poll, listener,
                   startHistoryId>>

\* POST /replies/send for page p, the path on which no call throws: the email
\* is sent and a row of the replies table records it with the provider's id.
ReplySend(p) ==
    /\ server = "listening"
    /\ Connected
    /\ sendCount < MaxSends
    /\ sendCount' = sendCount + 1
    /\ replies' = InsertReply(
           [page_id |-> p, message_id |-> <<>>, src |-> NULL,
            provider_message_id |-> ProviderId(sendCount + 1)])
    /\ UNCHANGED <<env, server, drafts, dispatch, decoder, settings, messages,
                   feed, unreadRemoved, hook, poll, listener, startHistoryId>>

\* ------------------------------------------------------------- webhook
\* Invocations are numbered in their order of arrival.
HookMayArrive(h) ==
    /\ server = "listening"
    /\ hook[h].pc = "idle"
    /\ \A g \in Hooks : g + 1 = h => hook[g].pc # "idle"

HookEnv == <<env, server, drafts, dispatch, decoder, settings, messages,
             replies, feed, unreadRemoved, sendCount, poll, listener,
             startHistoryId>>

\* req.body.message or message.data missing: 400.
HookInvalidPayload(h) ==
    /\ HookMayArrive(h)
    /\ hook' = [hook EXCEPT ![h].pc = "done", ![h].status = 400]
    /\ UNCHANGED HookEnv

\* message.data is not the base64 of a JSON text: JSON.parse throws, the
\* catch answers 500.
HookUnparsable(h) ==
    /\ HookMayArrive(h)
    /\ hook' = [hook EXCEPT ![h].pc = "done", ![h].status = 500]
    /\ UNCHANGED HookEnv

\* A valid envelope with historyId hid, which the mailbox has published:
\* decode it and read the stored cursor.
HookReceive(h, hid) ==
    /\ HookMayArrive(h)
    /\ hid <= Len(feed)
    /\ hook' = [hook EXCEPT
           ![h].hid = hid,
           ![h].start = StoredCursor,
           ![h].prior = \A g \in Hooks : g < h => hook[g].pc = "done",
           ![h].pc = IF StoredCursor = <<>> THEN "seed" ELSE "fetch"]
    /\ UNCHANGED HookEnv

\* HookSeed without its return: the cursor is stored and the handler goes on
\* to fetch history.
HookSeed_noReturn(h) ==
    /\ hook[h].pc = "seed"
    /\ settings' = Upsert(settings, HISTORY_KEY,
                          encrypt(HistoryString(hook[h].hid)))
    /\ hook' = [hook EXCEPT ![h].pc = "fetch",
                            ![h].start = HistoryString(hook[h].hid)]
    /\ UNCHANGED <<env, server, drafts, dispatch, decoder, messages, replies,
                   feed, unreadRemoved, sendCount, poll, listener,
                   startHistoryId>>

\* No start: store the envelope's historyId and answer 204.
HookSeed(h) ==
    /\ hook[h].pc = "seed"
    /\ settings' = Upsert(settings, HISTORY_KEY,
                          encrypt(HistoryString(hook[h].hid)))
    /\ hook' = [hook EXCEPT ![h].pc = "done", ![h].status = 204]
    /\ UNCHANGED <<env, server, drafts, dispatch, decoder, messages, replies,
                   feed, unreadRemoved, sendCount, poll, listener,
                   startHistoryId>>

\* HookFetchHistory with the cursor write moved into a finally: a rejected
\* history.list stores the envelope's historyId too.
HookFetchHistory_finally(h) ==
    /\ hook[h].pc = "fetch"
    /\ \/ /\ ~Connected
          /\ hook' = [hook EXCEPT ![h].pc = "done", ![h].status = 500,
                                  ![h].err = "NotConnected"]
          /\ UNCHANGED settings
       \/ /\ Connected
          /\ \E e \in HistoryErrors :
                 hook' = [hook EXCEPT ![h].pc = "done", ![h].status = 500,
                                     ![h].calls = @ + 1, ![h].err = e]
          /\ settings' = Upsert(settings, HISTORY_KEY,
                                encrypt(HistoryString(hook[h].hid)))
       \/ /\ Connected
          /\ TokenUsable
          /\ LET b == HistoryAfter(hook[h].start) IN
             hook' = [hook EXCEPT
                 ![h].batch = b,
                 ![h].newHid = CurrentHistoryId,
                 ![h].calls = @ + 1,
                 ![h].pc = IF b = <<>> THEN "write" ELSE "items"]
          /\ UNCHANGED settings
    /\ UNCHANGED <<env, server, drafts, dispatch, decoder, messages, replies,
                   feed, unreadRemoved, sendCount, poll, listener,
                   startHistoryId>>

\* getGmailClient and history.list: either throws (500), else the batch.
HookFetchHistory(h) ==
    /\ hook[h].pc = "fetch"
    /\ \/ /\ ~Connected
          /\ hook' = [hook EXCEPT ![h].pc = "done", ![h].status = 500,
                                  ![h].err = "NotConnected"]
       \/ /\ Connected
          /\ \E e \in HistoryErrors :
                 hook' = [hook EXCEPT ![h].pc = "done", ![h].status = 500,
                                     ![h].calls = @ + 1, ![h].err = e]
       \/ /\ Connected
          /\ TokenUsable
          /\ LET b == HistoryAfter(hook[h].start) IN
             hook' = [hook EXCEPT
                 ![h].batch = b,
                 ![h].newHid = CurrentHistoryId,
                 ![h].calls = @ + 1,
                 ![h].pc = IF b = <<>> THEN "write" ELSE "items"]
    /\ UNCHANGED HookEnv

\* HookAdvance leaving the loop after any record: the cursor write follows
\* the first record handled.
HookAdvance_break(H, entry, called) ==
    [H EXCEPT !.log = Append(@, entry),
              !.calls = @ + called,
              !.i = @ + 1,
              !.pc = "write"]

\* The invocation after it dealt with the current record as the entry says.
HookAdvance(H, entry, called) ==
    [H EXCEPT !.log = Append(@, entry),
              !.calls = @ + called,
              !.i = @ + 1,
              !.pc = IF H.i = Len(H.batch) THEN "write" ELSE "items"]

\* The body of the loop for one record.
HookItem(h) ==
    LET H == hook[h]
        m == H.batch[H.i]
        pageId == HookPageId(m)
    IN
    /\ H.pc = "items"
    /\ IF ~("UNREAD" \in labelIds(m) /\ "SENT" \notin labelIds(m))
       THEN /\ hook' = [hook EXCEPT ![h] = HookAdvance(H, "filtered", 0)]
            /\ UNCHANGED replies
       ELSE \/ \* messages.get or the parser throws
               /\ hook' = [hook EXCEPT ![h].pc = "done", ![h].status = 500,
                                       ![h].calls = @ + 1,
                                       ![h].err = "Transient"]
               /\ UNCHANGED replies
            \/ /\ pageId # NULL
               /\ replies' = InsertReply(
                      [page_id |-> pageId, message_id |-> <<>>, src |-> m,
                       provider_message_id |-> NULL])
               /\ hook' = [hook EXCEPT ![h] = HookAdvance(H, "stored", 1)]
            \/ \* the store rejects the insert; the result is not looked at
               /\ pageId # NULL
               /\ hook' = [hook EXCEPT ![h] = HookAdvance(H, "failed", 1)]
               /\ UNCHANGED replies
            \/ \* "Could not determine page_id"
               /\ pageId = NULL
               /\ hook' = [hook EXCEPT ![h] = HookAdvance(H, "skipped", 1)]
               /\ UNCHANGED replies
    /\ UNCHANGED <<env, server, drafts, dispatch, decoder, settings, messages,
                   feed, unreadRemoved, sendCount, poll, listener,
                   startHistoryId>>

\* HookWriteCursor replacing the table's content by the cursor row (a
\* delete of every row ahead of the insert).
HookWriteCursor_replace(h) ==
    /\ hook[h].pc = "write"
    /\ settings' = Upsert(EmptyBag, HISTORY_KEY,
                          encrypt(HistoryString(hook[h].hid)))
    /\ hook' = [hook EXCEPT ![h].pc = "done", ![h].status = 204]
    /\ UNCHANGED <<env, server, drafts, dispatch, decoder, messages, replies,
                   feed, unreadRemoved, sendCount, poll, listener,
                   startHistoryId>>

\* "Update history ID": the envelope's historyId, then 204.
HookWriteCursor(h) ==
    /\ hook[h].pc = "write"
    /\ settings' = Upsert(settings, HISTORY_KEY,
                          encrypt(HistoryString(hook[h].hid)))
    /\ hook' = [hook EXCEPT ![h].pc = "done", ![h].status = 204]
    /\ UNCHANGED <<env, server, drafts, dispatch, decoder, messages, replies,
                   feed, unreadRemoved, sendCount, poll, listener,
                   startHistoryId>>

\* ------------------------------------------------------------- poller
PollEnv == <<env, server, drafts, dispatch, decoder, settings, messages,
             replies, feed, unreadRemoved, sendCount, hook>>

\* startGmailListener up to setInterval: the client, the stored cursor, and
\* the profile's historyId when there is none.
StartGmailListener ==
    /\ server = "listening"
    /\ listener = "off"
    /\ \/ /\ ~Connected
          /\ listener' = "failed"
          /\ UNCHANGED startHistoryId
       \/ \* users.getProfile throws
          /\ Connected
          /\ StoredCursor = <<>>
          /\ listener' = "failed"
          /\ UNCHANGED startHistoryId
       \/ /\ Connected
          /\ listener' = "on"
          /\ startHistoryId' = IF StoredCursor # <<>> THEN StoredCursor
                               ELSE HistoryString(CurrentHistoryId)
    /\ UNCHANGED <<PollEnv, poll>>

\* The interval fires: history.list from startHistoryId, then the client of
\* processGmailHistory when there is history.
PollTick(t) ==
    /\ listener = "on"
    /\ poll[t].pc = "idle"
    /\ \A u \in Polls : u + 1 = t => poll[u].pc # "idle"
    /\ \/ \E e \in HistoryErrors :
              poll' = [poll EXCEPT ![t].pc = "done", ![t].calls = @ + 1,
                                   ![t].err = e]
       \/ LET b == HistoryAfter(startHistoryId) IN
          poll' = [poll EXCEPT
              ![t].batch = b,
              ![t].newHid = CurrentHistoryId,
              ![t].calls = @ + 1,
              ![t].pc = IF b = <<>> THEN "write"
                        ELSE IF Connected THEN "items" ELSE "done",
              ![t].err = IF b # <<>> /\ ~Connected THEN "NotConnected"
                         ELSE ""]
    /\ UNCHANGED <<PollEnv, listener, startHistoryId>>

PollAdvance(P, entry, called) ==
    [P EXCEPT !.log = Append(@, entry),
              !.calls = @ + called,
              !.i = @ + 1,
              !.pc = IF P.i = Len(P.batch) THEN "write" ELSE "items"]

\* The body of processGmailHistory's loop for one record.
PollItem(t) ==
    LET P == poll[t]
        m == P.batch[P.i]
        page == PollPage(m)
        orig == IF page = {} THEN {} ELSE LatestMessageOf(TheRow(page))
        row == [page_id |-> TheRow(page), message_id |-> <<TheRow(orig)>>,
                src |-> m, provider_message_id |-> NULL]
    IN
    /\ P.pc = "items"
    /\ IF "INBOX" \notin labelIds(m)
       THEN /\ poll' = [poll EXCEPT ![t] = PollAdvance(P, "filtered", 0)]
            /\ UNCHANGED <<replies, unreadRemoved>>
       ELSE \/ \* messages.get throws
               /\ poll' = [poll EXCEPT ![t].pc = "done", ![t].calls = @ + 1,
                                       ![t].err = "Transient"]
               /\ UNCHANGED <<replies, unreadRemoved>>
            \/ \* the From header has no <...>: match() is null, [1] throws
               /\ AngleMatch(FromHeader(m)) = <<>>
               /\ poll' = [poll EXCEPT ![t].pc = "done", ![t].calls = @ + 1,
                                       ![t].err = "TypeError"]
               /\ UNCHANGED <<replies, unreadRemoved>>
            \/ /\ AngleMatch(FromHeader(m)) # <<>>
               /\ page = {} \/ ReplyContent(m) = <<>> \/ orig = {}
               /\ poll' = [poll EXCEPT ![t] = PollAdvance(P, "skipped", 1)]
               /\ UNCHANGED <<replies, unreadRemoved>>
            \/ /\ AngleMatch(FromHeader(m)) # <<>>
               /\ page # {} /\ ReplyContent(m) # <<>> /\ orig # {}
               /\ \/ /\ replies' = InsertReply(row)
                     /\ \/ /\ unreadRemoved' = unreadRemoved \cup {m}
                           /\ poll' = [poll EXCEPT
                                  ![t] = PollAdvance(P, "stored", 2)]
                        \/ \* messages.modify throws
                           /\ poll' = [poll EXCEPT
                                  ![t].log = Append(@, "stored"),
                                  ![t].calls = @ + 2,
                                  ![t].pc = "done",
                                  ![t].err = "Transient"]
                           /\ UNCHANGED unreadRemoved
                  \/ \* the store rejects the insert
                     /\ UNCHANGED replies
                     /\ unreadRemoved' = unreadRemoved \cup {m}
                     /\ poll' = [poll EXCEPT
                            ![t] = PollAdvance(P, "failed", 2)]
    /\ UNCHANGED <<env, server, drafts, dispatch, decoder, settings, messages,
                   feed, sendCount, hook, listener, startHistoryId>>

\* startHistoryId = response.data.historyId, then the upsert of the cursor.
PollWriteCursor(t) ==
    /\ poll[t].pc = "write"
    /\ startHistoryId' = HistoryString(poll[t].newHid)
    /\ settings' = Upsert(settings, HISTORY_KEY,
                          encrypt(HistoryString(poll[t].newHid)))
    /\ poll' = [poll EXCEPT ![t].pc = "done", ![t].wrote = TRUE]
    /\ UNCHANGED <<env, server, drafts, dispatch, decoder, messages, replies,
                   feed, unreadRemoved, sendCount, hook, listener>>

\* ------------------------------------------------------------- specification
\* The webhook and the poller on one store, with the mail that reaches the
\* inbox.
Next ==
    \/ Startup
    \/ \E m \in InboxMsgIds : Arrive(m)
    \/ Authorize
    \/ Disconnect
    \/ \E d \in Drafts : DraftSend(d)
    \/ \E h \in Hooks : HookInvalidPayload(h)
    \/ \E h \in Hooks : HookUnparsable(h)
    \/ \E h \in Hooks : \E hid \in 1..MaxFeed : HookReceive(h, hid)
    \/ \E h \in Hooks : HookSeed(h)
    \/ \E h \in Hooks : HookFetchHistory(h)
    \/ \E h \in Hooks : HookItem(h)
    \/ \E h \in Hooks : HookWriteCursor(h)
    \/ StartGmailListener
    \/ \E t \in Polls : PollTick(t)
    \/ \E t \in Polls : PollItem(t)
    \/ \E t \in Polls : PollWriteCursor(t)

Spec == Init /\ [][Next]_vars

\* The server of part_000 on its own: the endpoints, /replies/send among
\* them, and the webhook; it has no poller.  The mailbox's history reports
\* every message added, in the inbox or not.
NextWebhook ==
    \/ Startup
    \/ \E m \in MsgIds : Arrive(m)
    \/ Authorize
    \/ Disconnect
    \/ \E d \in Drafts : DraftSend(d)
    \/ \E d \in Drafts : DraftSendFails(d)
    \/ \E p \in Pages : ReplySend(p)
    \/ \E h \in Hooks : HookInvalidPayload(h)
    \/ \E h \in Hooks : HookUnparsable(h)
    \/ \E h \in Hooks : \E hid \in 1..MaxFeed : HookReceive(h, hid)
    \/ \E h \in Hooks : HookSeed(h)
    \/ \E h \in Hooks : HookFetchHistory(h)
    \/ \E h \in Hooks : HookItem(h)
    \/ \E h \in Hooks : HookWriteCursor(h)

SpecWebhook == Init /\ [][NextWebhook]_vars

\* ------------------------------------------------------------- decoder
\* body.data of a part, decoded: nothing, or one of two texts.
PartData == {<<>>, <<"a">>, <<"b">>}

\* A part without parts of its own.
LeafParts ==
    [mimeType : {"text/plain", "text/html"}, data : PartData, parts : {<<>>}]

\* The multipart parts whose parts are taken from C.
MultiParts(C) ==
    [mimeType : {"multipart"}, data : {<<>>},
     parts : UNION {[1..n -> C] : n \in 1..MaxParts}]

\* messageDetails.data.payload: a single part, or a tree two levels deep.
Payloads == LeafParts \cup MultiParts(LeafParts \cup MultiParts(LeafParts))

\* part.parts is present (on the multipart parts only).
HasParts(part) == part.mimeType = "multipart"

RECURSIVE getPartFrom(_, _, _)
\* getPart's loop, from the i-th part on.
getPartFrom(parts, i, mimeType) ==
    IF i > Len(parts) THEN <<>>
    ELSE LET part == parts[i]
             result == IF HasParts(part)
                       THEN getPartFrom(part.parts, 1, mimeType)
                       ELSE <<>>
         IN  IF part.mimeType = mimeType /\ part.data # <<>> THEN part.data
             ELSE IF result # <<>> THEN result
             ELSE getPartFrom(parts, i + 1, mimeType)

\* getPart(parts, mimeType); the empty tuple is the empty string.
getPart(parts, mimeType) == getPartFrom(parts, 1, mimeType)

\* The payload of a fetched message goes through the poller's decoding:
\* getPart for text/plain, then for text/html when that gave nothing.  A
\* payload without parts makes getPart iterate over undefined, which throws.
Decode ==
    /\ server = "listening"
    /\ decoder.state = "pending"
    /\ decoder' =
         IF ~HasParts(decoder.payload)
         THEN [decoder EXCEPT !.state = "threw"]
         ELSE LET plain == getPart(decoder.payload.parts, "text/plain")
                  body == IF plain # <<>> THEN plain
                          ELSE getPart(decoder.payload.parts, "text/html")
              IN  [decoder EXCEPT !.state = "done", !.body = body]
    /\ UNCHANGED <<env, server, drafts, dispatch, settings, messages, replies,
                   feed, unreadRemoved, sendCount, hook, poll, listener,
                   startHistoryId>>

\* The decoder on its own, on any payload.
InitDecoder ==
    /\ InitServer
    /\ decoder \in [payload : Payloads, state : {"pending"}, body : {<<>>}]

NextDecoder == Startup \/ Decode

SpecDecoder == InitDecoder /\ [][NextDecoder]_vars


\* ------------------------------------------------------------- properties
HookInFlight(h) == hook[h].pc \in {"fetch", "items", "write"}

PollInFlight(t) == poll[t].pc \in {"items", "write"}

Quiescent ==
    /\ \A h \in Hooks : ~HookInFlight(h) /\ hook[h].pc # "seed"
    /\ \A t \in Polls : ~PollInFlight(t)

Range(q) == {q[k] : k \in DOMAIN q}

\* A webhook invocation that ran a sync to its end and wrote the cursor.
HookSynced(h) ==
    hook[h].pc = "done" /\ hook[h].status = 204 /\ hook[h].start # <<>>

\* No resolution rule of the specification finds a contact for m.
Unattributable(m) ==
    /\ InReplyTo(m) = <<>> \/
       \A k \in DOMAIN messages :
           <<messages[k].provider_message_id>> # StripBrackets(InReplyTo(m))
    /\ \A p \in Pages : contact_email(p) # FromAddress(m)

\* C1: once the syncs have come to rest, no provider message id has more than
\* one InboundReply, however often the change feed delivered it.
C1_OneReplyPerMessage ==
    Quiescent => \A m \in MsgIds : RowsFor(m) <= 1

\* C2: a sync that wrote the cursor has, for every record of the batch it
\* fetched, either stored its InboundReply or skipped it on purpose; it never
\* wrote the cursor past a record whose application failed.
C2_CursorOnlyAfterBatchApplied ==
    /\ \A h \in Hooks : HookSynced(h) =>
           \A k \in DOMAIN hook[h].batch :
               \/ hook[h].log[k] \in {"filtered", "skipped"}
               \/ RowsFor(hook[h].batch[k]) >= 1
    /\ \A t \in Polls : poll[t].wrote =>
           \A k \in DOMAIN poll[t].batch :
               \/ poll[t].log[k] \in {"filtered", "skipped"}
               \/ RowsFor(poll[t].batch[k]) >= 1

\* C3: when a sync stored record 1 of a batch of two and threw at record 2,
\* and the next sync started from the same cursor, fetched both records again
\* and completed, there is exactly one InboundReply for record 1.
C3_AbortedBatchReappliedOnce ==
    \A a, b \in Hooks :
        ( /\ a < b
          /\ hook[a].pc = "done" /\ hook[a].status = 500
          /\ Len(hook[a].batch) = 2 /\ hook[a].i = 2
          /\ hook[a].log = <<"stored">>
          /\ hook[a].batch[1] # hook[a].batch[2]
          /\ hook[b].prior /\ HookSynced(b)
          /\ hook[b].start = hook[a].start
          /\ hook[b].batch = hook[a].batch
          /\ \A t \in Polls : hook[a].batch[1] \notin Range(poll[t].batch) )
        => RowsFor(hook[a].batch[1]) = 1

\* C4: at most one sync is executing at any time.
C4_SingleFlight ==
    Cardinality({h \in Hooks : HookInFlight(h)})
        + Cardinality({t \in Polls : PollInFlight(t)}) <= 1

\* C5: while two syncs overlap whose batches both hold provider message m,
\* at most one InboundReply is stored for m.
C5_OverlapStoresOnce ==
    \A m \in MsgIds :
        ( \/ \E g, h \in Hooks :
                 /\ g # h /\ HookInFlight(g) /\ HookInFlight(h)
                 /\ m \in Range(hook[g].batch) /\ m \in Range(hook[h].batch)
          \/ \E h \in Hooks, t \in Polls :
                 /\ HookInFlight(h) /\ PollInFlight(t)
                 /\ m \in Range(hook[h].batch) /\ m \in Range(poll[t].batch) )
        => RowsFor(m) <= 1

\* C6: the cursor never moves past a reply that was not recorded: when a sync
\* has moved the cursor from its start to the envelope's historyId, every
\* inbound record between the two has an InboundReply.
C6_NoReplyLeftBehind ==
    \A h \in Hooks : HookSynced(h) =>
        \A k \in DOMAIN feed :
            (hook[h].start[1] < k /\ k <= hook[h].hid
             /\ "INBOX" \in labelIds(feed[k]) /\ "SENT" \notin labelIds(feed[k]))
            => RowsFor(feed[k]) >= 1

\* C7: a reply whose In-Reply-To, brackets removed, is the provider id of a
\* stored OutboundMessage is attributed to that message's contact.
C7_HeaderAnchorWins ==
    \A r \in DOMAIN replies : \A k \in DOMAIN messages :
        StripBrackets(InReplyTo(r.src)) = <<messages[k].provider_message_id>>
        => r.page_id = messages[k].page_id

C9_UnattributedStored ==
    /\ \A h \in Hooks : \A k \in DOMAIN hook[h].log :
           Unattributable(hook[h].batch[k]) =>
               \E r \in DOMAIN replies :
                   /\ r.src = hook[h].batch[k]
                   /\ r.page_id = NULL /\ r.message_id = <<>>
    /\ \A t \in Polls : \A k \in DOMAIN poll[t].log :
           Unattributable(poll[t].batch[k]) =>
               \E r \in DOMAIN replies :
                   /\ r.src = poll[t].batch[k]
                   /\ r.page_id = NULL /\ r.message_id = <<>>

\* C10: a valid envelope received while no cursor is stored takes the seeding
\* path, and the seeding step stores the envelope's historyId as the cursor
\* and answers 204, the invocation having made no provider call and written
\* no InboundReply.
C10_SeedWithoutFetch ==
    [][\A h \in Hooks :
          /\ (hook[h].pc = "idle" /\ hook'[h].pc \in {"seed", "fetch"})
             => (hook'[h].pc = "seed" <=> StoredCursor = <<>>)
          /\ (hook[h].pc = "seed" /\ hook'[h] # hook[h])
             => /\ hook'[h].pc = "done"
                /\ hook'[h].status = 204
                /\ StoredCursor' = HistoryString(hook[h].hid)
                /\ hook'[h].calls = 0
                /\ hook'[h].batch = <<>> /\ hook'[h].log = <<>>
                /\ replies' = replies]_vars

C10_Witness ==
    \E h \in Hooks :
        /\ hook[h].pc = "done" /\ hook[h].status = 204
        /\ hook[h].start = <<>> /\ hook[h].calls = 0
        /\ StoredCursor = HistoryString(hook[h].hid)

\* C11: a malformed envelope (the only invocations that answer without
\* reading the cursor) is answered with a client-error status, makes no
\* provider call and leaves the stored settings as they are.
C11_MalformedIsClientError ==
    [][\A h \in Hooks :
          (hook[h].pc = "idle" /\ hook'[h].pc = "done")
          => /\ hook'[h].status >= 400 /\ hook'[h].status < 500
             /\ hook'[h].calls = 0
             /\ settings' = settings]_vars

\* C12: an invocation that found a stored cursor answers 204 whatever
\* happened in its sync.
C12_AckWhateverTheSync ==
    \A h \in Hooks :
        (hook[h].pc = "done" /\ hook[h].start # <<>>) => hook[h].status = 204

\* C13: the acknowledgement does not wait for the sync: once an invocation
\* has made a provider call, its response has been sent.
C13_AckBeforeProviderCalls ==
    \A h \in Hooks : hook[h].calls > 0 => hook[h].status # 0

\* C18: the stored cursor only ever advances: a write never replaces it by
\* an older historyId, whatever the order in which the pushes are delivered.
C18_CursorMonotone ==
    [][(StoredCursor # <<>> /\ StoredCursor' # <<>>)
       => StoredCursor'[1] >= StoredCursor[1]]_vars

\* C14: when history.list rejects the cursor as invalid, the sync state is
\* reset: no cursor is left in the store (and none in the poller), so that
\* the next delivery seeds a new one instead of fetching from the old one.
C14_InvalidCursorIsReset ==
    [][/\ \A h \in Hooks :
              (hook[h].pc = "fetch" /\ hook'[h].err = "CursorInvalid")
              => StoredCursor' = <<>>
       /\ \A t \in Polls :
              (poll[t].pc = "idle" /\ poll'[t].err = "CursorInvalid")
              => StoredCursor' = <<>> /\ startHistoryId' = <<>>]_vars

\* C15: the sync that fails with AuthExpired leaves the engine Disconnected:
\* the interval is no longer scheduled.
C15_AuthExpiredStopsTheTimer ==
    [][\A t \in Polls :
          (poll[t].pc = "idle" /\ poll'[t].err = "AuthExpired")
          => listener' # "on"]_vars

\* A message the poller cannot decode: its From header has no address in
\* angle brackets.
Undecodable(m) == AngleMatch(FromHeader(m)) = <<>>

\* C16: an undecodable item, once fetched, is skipped and nothing else: the
\* sync goes on to the next record or to the cursor write.
C16_UndecodableItemIsSkipped ==
    [][\A t \in Polls :
          (/\ poll[t].pc = "items"
           /\ Undecodable(poll[t].batch[poll[t].i])
           /\ poll'[t] # poll[t]
           /\ poll'[t].err # "Transient")
          => /\ poll'[t].pc \in {"items", "write"}
             /\ poll'[t].i = poll[t].i + 1]_vars

\* C17: a sync that aborts on a failed history fetch or message fetch writes
\* no cursor (neither the stored one nor the poller's), made the failing call
\* once, and its invocation does nothing more afterwards.
C17_AbortWritesNoCursor ==
    [][/\ \A h \in Hooks :
              (hook[h].pc \in {"fetch", "items"} /\ hook'[h].pc = "done")
              => /\ settings' = settings
                 /\ hook'[h].status = 500
                 /\ hook'[h].calls <= hook[h].calls + 1
       /\ \A t \in Polls :
              (/\ poll[t].pc \in {"idle", "items"} /\ poll'[t].pc = "done"
               /\ poll'[t].calls = poll[t].calls + 1)
              => /\ settings' = settings
                 /\ startHistoryId' = startHistoryId
                 /\ ~poll'[t].wrote
       /\ \A h \in Hooks : hook[h].pc = "done" => hook'[h] = hook[h]
       /\ \A t \in Polls : poll[t].pc = "done" => poll'[t] = poll[t]]_vars

\* A webhook sync and a poll have both aborted on a failed fetch, one of them
\* in the middle of a batch, and the store still has the cursor the webhook
\* started from.
C17_Witness ==
    /\ \E h \in Hooks :
           /\ hook[h].pc = "done" /\ hook[h].err = "Transient"
           /\ hook[h].batch # <<>> /\ hook[h].start # <<>>
           /\ StoredCursor = hook[h].start
           /\ StoredCursor[1] # hook[h].hid
    /\ \E t \in Polls :
           poll[t].pc = "done" /\ poll[t].err = "Transient" /\ ~poll[t].wrote

\* C19: every row of the messages table stands for one successful provider
\* send of its own and carries the id that send returned.
C19_RowPerSuccessfulSend ==
    /\ \A k \in DOMAIN messages :
           \E n \in 1..sendCount :
               messages[k].provider_message_id = ProviderId(n)
    /\ \A j, k \in DOMAIN messages :
           j # k => messages[j].provider_message_id
                        # messages[k].provider_message_id

\* C20: whatever sequence of authorizations, reconnections and disconnections
\* has happened, the store holds at most one credential of the team scope.
C20_AtMostOneCredential == SettingCount(TOKEN_KEY) <= 1

\* The mailbox was authorized (the listener started), disconnected (a poll
\* found no client) and authorized again: one credential is stored.
C20_Witness ==
    /\ listener = "on"
    /\ \E t \in Polls : poll[t].err = "NotConnected"
    /\ SettingCount(TOKEN_KEY) = 1

\* C23: while no cursor is stored, a cursor is created by the seeding step
\* of a webhook delivery and by nothing else.
C23_OnlyTheWebhookSeeds ==
    [][(StoredCursor = <<>> /\ StoredCursor' # <<>>)
       => \E h \in Hooks : hook[h].pc = "seed" /\ hook'[h].pc = "done"]_vars

\* C29: when the authorization callback has stored a credential where there
\* was none, no cursor is stored.
C29_AuthorizationClearsCursor ==
    [][(SettingCount(TOKEN_KEY) = 0 /\ SettingCount(TOKEN_KEY)' = 1)
       => StoredCursor' = <<>>]_vars

\* C30: a cursor is stored only while a credential is stored.
C30_CursorOnlyWithCredential ==
    SettingCount(HISTORY_KEY) > 0 => SettingCount(TOKEN_KEY) > 0

\* C22: the cursor a sync persists at its end is the historyId that its own
\* history.list returned.
C22_PersistsProviderCursor ==
    [][/\ \A h \in Hooks :
              (hook[h].pc = "write" /\ hook'[h].pc = "done")
              => StoredCursor' = HistoryString(hook[h].newHid)
       /\ \A t \in Polls :
              (poll[t].pc = "write" /\ poll'[t].pc = "done")
              => StoredCursor' = HistoryString(poll[t].newHid)]_vars

\* C21: a process started without the encryption key never listens and
\* serves nothing: no endpoint changes the store, no webhook invocation and
\* no poll runs, the listener is never started.
C21_NoKeyNoServer ==
    [][env = NULL
       => /\ server' # "listening"
          /\ UNCHANGED <<settings, messages, replies, sendCount, hook, poll,
                         listener, startHistoryId, unreadRemoved>>]_vars

\* Startup has failed for lack of the key, and mail has arrived since.
C21_Witness == env = NULL /\ server = "failed" /\ feed # <<>>

\* C24: no InboundReply is recorded for a message that lacks the inbound
\* label or carries the self-sent label.
C24_OnlyInboundRecorded ==
    \A m \in MsgIds :
        RowsFor(m) >= 1 => "INBOX" \in labelIds(m) /\ "SENT" \notin labelIds(m)

\* C25: a sync handles the records of its batch one at a time and in the
\* provider's order: every step moves its index by at most one, a row it
\* inserts is the row of the record at its index, and it reaches the cursor
\* write only with the index past the last record.
C25_InOrderThenCursor ==
    [][/\ \A h \in Hooks :
            /\ hook'[h].i \in {hook[h].i, hook[h].i + 1}
            /\ (hook[h].pc = "items" /\ hook'[h] # hook[h]
                /\ replies' # replies)
               => /\ hook'[h].i = hook[h].i + 1
                  /\ \E row \in DOMAIN replies' :
                        /\ row.src = hook[h].batch[hook[h].i]
                        /\ replies' = InsertReply(row)
            /\ hook'[h].pc = "write"
               => hook'[h].i = Len(hook'[h].batch) + 1
            /\ (hook[h].pc = "items" /\ settings' # settings)
               => hook'[h] = hook[h]
       /\ \A t \in Polls :
            /\ poll'[t].i \in {poll[t].i, poll[t].i + 1}
            /\ (poll[t].pc = "items" /\ poll'[t] # poll[t]
                /\ replies' # replies)
               => \E row \in DOMAIN replies' :
                     /\ row.src = poll[t].batch[poll[t].i]
                     /\ replies' = InsertReply(row)
            /\ poll'[t].pc = "write"
               => poll'[t].i = Len(poll'[t].batch) + 1]_vars

\* A webhook sync has handled a batch of two different records, stored both
\* and written the cursor.
C25_Witness ==
    \E h \in Hooks :
        /\ HookSynced(h)
        /\ Len(hook[h].batch) = 2
        /\ hook[h].batch[1] # hook[h].batch[2]
        /\ hook[h].log = <<"stored", "stored">>

\* C26: when a poll has stored the reply of a record and the removal of the
\* record's UNREAD label fails, the poll goes on: to the next record, or to
\* the cursor write after the last.
C26_LabelRemovalNotFatal ==
    [][\A t \in Polls :
          (/\ poll[t].pc = "items"
           /\ poll'[t] # poll[t]
           /\ replies' # replies
           /\ poll[t].batch[poll[t].i] \notin unreadRemoved')
          => poll'[t].pc \in {"items", "write"}]_vars

\* C27: the back-reference of a stored InboundReply is the OutboundMessage
\* whose provider id its In-Reply-To names, and null when there is none.
C27_BackReferenceIsAnchor ==
    \A row \in DOMAIN replies :
        LET h == InReplyTo(row.src)
            anchor == IF h # <<>> THEN MessageByProviderId(StripBrackets(h))
                      ELSE {}
        IN  IF anchor # {} THEN row.message_id = <<TheRow(anchor)>>
            ELSE row.message_id = <<>>

\* The page a sent message went to: the page of the row, of either table,
\* that carries its provider id.
SentTo(id) ==
    {messages[k].page_id : k \in {j \in DOMAIN messages :
                                     messages[j].provider_message_id = id}}
    \cup {row.page_id : row \in {r \in DOMAIN replies :
                                    r.provider_message_id = id}}

\* C28: every message sent through the provider has its OutboundMessage (a
\* row of the messages table with its provider id), and a stored reply whose
\* In-Reply-To names a sent message belongs to the page that message went to.
C28_EverySendAnchors ==
    /\ \A n \in 1..sendCount :
           \E k \in DOMAIN messages :
               messages[k].provider_message_id = ProviderId(n)
    /\ \A row \in DOMAIN replies :
           (row.src # NULL /\ InReplyTo(row.src) # <<>>)
           => \A p \in SentTo(StripBrackets(InReplyTo(row.src))[1]) :
                  row.page_id = p

\* C35: a draft is dispatched at most once: at most one row of the messages
\* table references it.
C35_DraftDispatchedOnce ==
    \A j, k \in DOMAIN messages :
        messages[j].draft_id = messages[k].draft_id => j = k

\* C34: a request to /drafts/:id/send whose provider send fails is answered
\* with an error and changes nothing: no messages row, no draft status, no
\* other table.
C34_FailedSendChangesNothing ==
    [][(dispatch' # dispatch /\ dispatch'.error = "SendFailed")
       => /\ dispatch'.status = 500
          /\ messages' = messages
          /\ drafts' = drafts
          /\ sendCount' = sendCount
          /\ replies' = replies
          /\ settings' = settings]_vars

\* The send of d1 has failed while the mailbox was connected; d1 is still
\* pending and has no messages row.
C34_Witness ==
    /\ dispatch = [draft |-> "d1", status |-> 500, error |-> "SendFailed"]
    /\ drafts["d1"] = "pending"
    /\ \A k \in DOMAIN messages : messages[k].draft_id # "d1"
    /\ Connected

\* The secure_settings rows other than the cursor: the credential and the
\* account's address.
CredentialRows ==
    LET S == {r \in DOMAIN settings : r.key # HISTORY_KEY} IN
    [r \in S |-> settings[r]]

\* C31: a step of a sync, of the webhook or of the poller, successful or
\* not, changes nothing but replies rows and the stored cursor: the
\* credential, the messages table and the drafts stay as they are.
C31_SyncFrame ==
    [][((\E h \in Hooks : hook'[h] # hook[h])
        \/ (\E t \in Polls : poll'[t] # poll[t])
        \/ listener' # listener)
       => /\ CredentialRows' = CredentialRows
          /\ messages' = messages
          /\ drafts' = drafts
          /\ sendCount' = sendCount]_vars

\* One webhook sync has completed and another has failed at a provider call,
\* with a credential stored and a message sent.
C31_Witness ==
    /\ \E h \in Hooks : HookSynced(h) /\ hook[h].batch # <<>>
    /\ \E g \in Hooks : hook[g].status = 500 /\ hook[g].calls > 0
    /\ Connected
    /\ messages # <<>>

RECURSIVE LeavesOfParts(_, _)
\* The leaves under the parts from the i-th on, in depth-first order.
LeavesOfParts(parts, i) ==
    IF i > Len(parts) THEN <<>>
    ELSE (IF HasParts(parts[i]) THEN LeavesOfParts(parts[i].parts, 1)
          ELSE <<parts[i]>>)
         \o LeavesOfParts(parts, i + 1)

\* The body the specification's decoder returns for a payload: that of the
\* first text/plain leaf in depth-first order, else of the first text/html
\* leaf, else none.
FirstLeafBody(payload) ==
    LET leaves == LeavesOfParts(<<payload>>, 1)
        plain == SelectSeq(leaves, LAMBDA l : l.mimeType = "text/plain")
        html == SelectSeq(leaves, LAMBDA l : l.mimeType = "text/html")
    IN  IF plain # <<>> THEN plain[1].data
        ELSE IF html # <<>> THEN html[1].data
        ELSE <<>>

\* C33: decoding any payload ends with the body of its first text/plain leaf
\* in depth-first order, or of its first text/html leaf when it has no
\* text/plain leaf.
C33_FirstPlainElseHtml ==
    decoder.state \in {"done", "threw"}
    => /\ decoder.state = "done"
       /\ decoder.body = FirstLeafBody(decoder.payload)

\* ------------------------------------------------------------- key change
\* The process started on a store that an earlier deployment, whose
\* ENCRYPTION_KEY was PREVIOUS_KEY, connected and synchronised: the refresh
\* token and the cursor are ciphertexts of that key.  For a text of less than
\* a block, as the cursor is, CryptoJS strips more padding than there are
\* bytes for nearly every other key, and decrypt returns the empty string.
InitRotate ==
    /\ env \in {ENCRYPTION_KEY, NULL}
    /\ server = "loading"
    /\ drafts = [d \in Drafts |-> "pending"]
    /\ dispatch = NoResponse
    /\ decoder = NoPayload
    /\ settings =
           Upsert(Upsert(Upsert(EmptyBag,
                TOKEN_KEY, [key |-> PREVIOUS_KEY, text |-> "refresh"]),
                EMAIL_KEY, "team@x"),
                HISTORY_KEY, [key |-> PREVIOUS_KEY, text |-> HistoryString(0)])
    /\ messages = <<>>
    /\ replies = EmptyBag
    /\ feed = <<>>
    /\ unreadRemoved = {}
    /\ sendCount = 0
    /\ hook = [h \in Hooks |-> IdleHook]
    /\ poll = [t \in Polls |-> IdlePoll]
    /\ listener = "off"
    /\ startHistoryId = <<>>

\* The webhook, the mailbox and the authorisation endpoints of that process.
NextRotate ==
    \/ Startup
    \/ \E m \in InboxMsgIds : Arrive(m)
    \/ Authorize
    \/ Disconnect
    \/ \E h \in Hooks : HookInvalidPayload(h)
    \/ \E h \in Hooks : HookUnparsable(h)
    \/ \E h \in Hooks : \E hid \in 1..MaxFeed : HookReceive(h, hid)
    \/ \E h \in Hooks : HookSeed(h)
    \/ \E h \in Hooks : HookFetchHistory(h)
    \/ \E h \in Hooks : HookItem(h)
    \/ \E h \in Hooks : HookWriteCursor(h)

SpecRotate == InitRotate /\ [][NextRotate]_vars

\* A cursor row is stored whose ciphertext is of another key.
CursorOfOtherKey ==
    \E r \in SettingRow(HISTORY_KEY) : r.value.key # ENCRYPTION_KEY

\* C32: reading a stored secret that was encrypted under a different key
\* fails with an error: a webhook invocation that reads a cursor of another
\* key ends with status 500, and goes on neither as if no cursor were stored
\* nor with the text it got.
C32_MismatchedKeyFails ==
    [][\A h \in Hooks :
          (/\ hook[h].pc = "idle"
           /\ hook'[h].pc \in {"seed", "fetch"}
           /\ CursorOfOtherKey)
          => hook'[h].status = 500]_vars

====
